---- MODULE Spec2Model ----
(***************************************************************************)
(* receiver-power-sync: a relay that listens on a primary receiver and     *)
(* forwards power messages to the secondary receivers.                     *)
(*                                                                         *)
(* The model follows src/receiver_power_sync/service.py, eiscp.py and      *)
(* main.py.  Bytes are integers 0..255, a bytes object is a sequence of    *)
(* them.  Every thread started by main_loop is a process of the model: one *)
(* listen_forever thread per connection and the main thread with the       *)
(* periodic probe.  A step of a thread is one access to a connection.      *)
(* time.sleep only delays a thread, so a sleep is a step that changes the  *)
(* position of the thread and nothing else.                                *)
(***************************************************************************)
EXTENDS Integers, Sequences, FiniteSets, TLC

(***************************************************************************)
(* Bounds of the model.                                                    *)
(***************************************************************************)
\* number of configured secondaries (config["secondaries"])
NumSecondaries == 2
\* number of chunks of bytes the primary receiver sends
MaxMsgs == 2
\* number of failures the environment injects (connect, write, shutdown,
\* closed or reset peer)
MaxFaults == 2

(***************************************************************************)
(* Bytes and byte strings of the source.                                   *)
(***************************************************************************)
CR == 13
LF == 10
SUB == 26
BANG == 33
LETTER_I == 73
HEADER_LEN == 16

Terminators == {CR, LF, SUB}
ISCP == <<73, 83, 67, 80>>
PWR_PREFIX == <<33, 49, 80, 87, 82>>
EISCP_PREFIX == <<33, 49>>
PWRQSTN == <<33, 49, 80, 87, 82, 81, 83, 84, 78>>

\* the commands the receivers of the model emit: !1PWR01, !1PWR00, !1MVL20
PWR01 == <<33, 49, 80, 87, 82, 48, 49>>
PWR00 == <<33, 49, 80, 87, 82, 48, 48>>
MVL20 == <<33, 49, 77, 86, 76, 50, 48>>

Min(a, b) == IF a < b THEN a ELSE b

\* bytes.startswith
StartsWith(s, p) == Len(s) >= Len(p) /\ SubSeq(s, 1, Len(p)) = p

\* the python slice s[a:b] for 0 <= a <= b
Slice(s, a, b) == SubSeq(s, a + 1, Min(b, Len(s)))

\* struct.pack(">I", n)
U32BE(n) ==
  << (n \div 16777216) % 256, (n \div 65536) % 256, (n \div 256) % 256, n % 256 >>

\* int.from_bytes(s, "big")
RECURSIVE FromBytes(_)
FromBytes(s) ==
  IF s = <<>> THEN 0
  ELSE FromBytes(SubSeq(s, 1, Len(s) - 1)) * 256 + s[Len(s)]

(***************************************************************************)
(* eiscp.py                                                                *)
(***************************************************************************)
build_eiscp_packet(command) ==
  ISCP \o U32BE(HEADER_LEN) \o U32BE(Len(command) + 1) \o <<1, 0, 0, 0>>
       \o command \o <<CR>>

\* None is the empty tuple, a header is <<header_size, data_size>>
NoHeader == <<>>

extract_eiscp_header(header) ==
  IF ~StartsWith(header, ISCP) THEN NoHeader
  ELSE << FromBytes(Slice(header, 4, 8)), FromBytes(Slice(header, 8, 12)) >>

\* a slice that keeps the byte that ends the packet
extract_eiscp_message_whole(data) ==
  LET header_data == extract_eiscp_header(data) IN
  IF header_data = NoHeader THEN [some |-> FALSE, msg |-> <<>>]
  ELSE [some |-> TRUE,
        msg |-> Slice(data, header_data[1], header_data[1] + header_data[2])]

\* None is some = FALSE; data[header_size : header_size + data_size - 1]
extract_eiscp_message(data) ==
  LET header_data == extract_eiscp_header(data) IN
  IF header_data = NoHeader THEN [some |-> FALSE, msg |-> <<>>]
  ELSE [some |-> TRUE,
        msg |-> Slice(data, header_data[1], header_data[1] + header_data[2] - 1)]

(***************************************************************************)
(* Reading.  The receive buffer of a connection is buf, the bytes that     *)
(* have arrived and are not read yet, and end, what follows them: "none"   *)
(* (the peer is silent: select times out), "eof" (the peer closed: recv    *)
(* returns b"") or "rst" (the peer reset: recv raises                      *)
(* ConnectionResetError).  A read returns                                  *)
(*   exc  : the exception raised, "none" when it returns                   *)
(*   some : FALSE when it returns None                                     *)
(*   msg  : the bytes returned                                             *)
(*   rest : the bytes left in the buffer                                   *)
(***************************************************************************)
Returned(msg, rest) == [exc |-> "none", some |-> TRUE, msg |-> msg, rest |-> rest]
ReturnedNone(rest) == [exc |-> "none", some |-> FALSE, msg |-> <<>>, rest |-> rest]
Raised(exc, rest) == [exc |-> exc, some |-> FALSE, msg |-> <<>>, rest |-> rest]

\* EiscpConnection._tcp_grab_bytes: num_bytes times select (1 s) and recv(1);
\* once the peer has closed every further recv(1) adds b"" to data
RECURSIVE tcp_grab_loop(_, _, _, _)
tcp_grab_loop(buf, end, num_bytes, data) ==
  IF num_bytes = 0 THEN Returned(data, buf)
  ELSE IF buf # <<>>
    THEN tcp_grab_loop(Tail(buf), end, num_bytes - 1, Append(data, Head(buf)))
  ELSE IF end = "eof" THEN Returned(data, buf)
  ELSE IF end = "rst" THEN Raised("ConnectionResetError", buf)
  ELSE ReturnedNone(buf)

tcp_grab_bytes(buf, end, num_bytes) == tcp_grab_loop(buf, end, num_bytes, <<>>)

\* the first loop of EiscpConnection.get_message: skip to the first "I"
RECURSIVE eiscp_find_start(_, _)
eiscp_find_start(buf, end) ==
  IF buf = <<>>
    THEN IF end = "eof" THEN Raised("ConnectionClosedException", buf)
         ELSE IF end = "rst" THEN Raised("ConnectionResetError", buf)
         ELSE Returned(<<>>, buf)
  ELSE IF Head(buf) = LETTER_I THEN Returned(<<LETTER_I>>, Tail(buf))
  ELSE eiscp_find_start(Tail(buf), end)

\* a strip of one trailing terminator at most
strip_last_terminator(message) ==
  IF message # <<>> /\ message[Len(message)] \in Terminators
    THEN SubSeq(message, 1, Len(message) - 1)
  ELSE message

\* the while loop that strips the trailing terminators
RECURSIVE strip_terminators(_)
strip_terminators(message) ==
  IF message # <<>> /\ message[Len(message)] \in Terminators
    THEN strip_terminators(SubSeq(message, 1, Len(message) - 1))
  ELSE message

\* EiscpConnection.get_message, from the data segment on
eiscp_read_data(buf, end, data_size) ==
  LET m == tcp_grab_bytes(buf, end, data_size) IN
  IF m.exc # "none" THEN m
  ELSE IF ~m.some \/ m.msg = <<>> THEN ReturnedNone(m.rest)
  ELSE LET message == strip_terminators(m.msg) IN
       IF ~StartsWith(message, EISCP_PREFIX) THEN ReturnedNone(m.rest)
       ELSE Returned(message, m.rest)

\* EiscpConnection.get_message, from the header on
eiscp_read_header(header, buf, end) ==
  LET h == tcp_grab_bytes(buf, end, HEADER_LEN - 1) IN
  IF h.exc # "none" THEN h
  ELSE IF ~h.some THEN Raised("TypeError", h.rest)
  ELSE LET header_data == extract_eiscp_header(header \o h.msg) IN
       IF header_data = NoHeader THEN ReturnedNone(h.rest)
       ELSE IF header_data[1] > HEADER_LEN
         THEN LET x == tcp_grab_bytes(h.rest, end, header_data[1] - HEADER_LEN) IN
              IF x.exc # "none" THEN x
              ELSE eiscp_read_data(x.rest, end, header_data[2])
       ELSE eiscp_read_data(h.rest, end, header_data[2])

eiscp_get_message(buf, end) ==
  LET s == eiscp_find_start(buf, end) IN
  IF s.exc # "none" THEN s ELSE eiscp_read_header(s.msg, s.rest, end)

\* ReceiverConnection.get_message (delimited TCP and serial)
RECURSIVE get_message_loop(_, _, _, _)
get_message_loop(buf, end, received_data, found_message) ==
  IF buf = <<>>
    THEN IF end = "none" THEN ReturnedNone(buf)
         ELSE Raised("ConnectionResetError", buf)
  ELSE LET data == Head(buf) IN
       IF data \in Terminators
         THEN IF found_message THEN Returned(received_data, Tail(buf))
              ELSE get_message_loop(Tail(buf), end, received_data, found_message)
       ELSE get_message_loop(Tail(buf), end, Append(received_data, data),
                             found_message \/ data = BANG)

\* a reader that, when the bytes run out before a terminator, returns what it
\* has read as the message
RECURSIVE get_message_loop_partial(_, _, _, _)
get_message_loop_partial(buf, end, received_data, found_message) ==
  IF buf = <<>>
    THEN IF end = "none" THEN Returned(received_data, buf)
         ELSE Raised("ConnectionResetError", buf)
  ELSE LET data == Head(buf) IN
       IF data \in Terminators
         THEN IF found_message THEN Returned(received_data, Tail(buf))
              ELSE get_message_loop_partial(Tail(buf), end, received_data,
                                            found_message)
       ELSE get_message_loop_partial(Tail(buf), end, Append(received_data, data),
                                     found_message \/ data = BANG)

delimited_get_message_partial(buf, end) ==
  get_message_loop_partial(buf, end, <<>>, FALSE)

\* a reader that takes the message as begun before it has seen a "!"
delimited_get_message_started(buf, end) == get_message_loop(buf, end, <<>>, TRUE)

delimited_get_message(buf, end) == get_message_loop(buf, end, <<>>, FALSE)

get_message(mode, buf, end) ==
  IF mode = "EISCP" THEN eiscp_get_message(buf, end)
  ELSE delimited_get_message(buf, end)

\* a payload without its terminator
prep_message_unterminated(mode, message) ==
  IF mode = "EISCP" THEN build_eiscp_packet(message) ELSE message

\* _prep_message_for_receiver
prep_message_for_receiver(mode, message) ==
  IF mode = "EISCP" THEN build_eiscp_packet(message) ELSE message \o <<CR>>

(***************************************************************************)
(* The state.                                                              *)
(***************************************************************************)
Conns == 0 .. NumSecondaries
Secondaries == 1 .. NumSecondaries
Primary == 0
Modes == <<"EISCP", "TCP", "Serial">>
\* the threads that call send_message_to_receiver: the listener of the
\* primary (from its callback) and the main thread (the probe)
Senders == {"listener", "main"}

VARIABLES
  mode,       \* rec_config["mode"] of each connection
  connected,  \* ReceiverConnection.connected
  handle,     \* self.sock / self.ser: "none" (None), "unconnected" (a socket
              \* that is not connected), "open", "closed" (a closed Serial)
  buf,        \* the bytes received on the handle and not read yet
  end,        \* what follows them: "none", "eof" or "rst"
  lpc,        \* where each listen_forever thread is
  lexc,       \* the exception that ended it, "none" while it runs
  lfails,     \* connect attempts of the thread that failed since it last
              \* entered its try block
  lwaits,     \* the sleeps it has finished since then
  snd,        \* the send_message_to_receiver call of each sender, with the
              \* number of writes it has attempted so far
  mainpc,     \* where the main thread is
  mainexc,    \* the exception that ended main_loop
  td,         \* the index of __exit__'s loop over the listeners
  faults,     \* failures injected so far
  arrived,    \* chunks the primary receiver has sent so far
  delivered,  \* the messages given to the callback of the primary, in order
  handled,    \* how the callback ended for each of them
  calls,      \* per secondary: the messages send_message_to_receiver was called with
  wire,       \* per secondary: the payloads written to it
  stream,     \* the bytes given to a function of the framing layer
  applied,    \* the function applied to them, "none" before
  result,     \* what get_message returned or raised for them
  decoded     \* what extract_eiscp_header and extract_eiscp_message returned

connVars == <<connected, handle, buf, end>>
framingVars == <<stream, applied, result, decoded>>
vars == <<mode, connected, handle, buf, end, lpc, lexc, lfails, lwaits, snd, mainpc,
          mainexc, td, faults, arrived, delivered, handled, calls, wire,
          stream, applied, result, decoded>>

IdleFrame == [pc |-> "idle", conn |-> 0, message |-> <<>>, idx |-> 0, writes |-> 0]
Call(c, message, idx) ==
  [pc |-> "begin", conn |-> c, message |-> message, idx |-> idx, writes |-> 0]

\* ReceiverSyncService.__init__ and the constructors of the connections; the
\* configuration is any rotation of the three transports over the listeners
ServiceInit ==
  /\ \E k \in 0 .. 2 : mode = [c \in Conns |-> Modes[((c + k) % 3) + 1]]
  /\ connected = [c \in Conns |-> FALSE]
  /\ handle = [c \in Conns |-> "none"]
  /\ buf = [c \in Conns |-> <<>>]
  /\ end = [c \in Conns |-> "none"]
  /\ lpc = [c \in Conns |-> "top"]
  /\ lexc = [c \in Conns |-> "none"]
  /\ lfails = [c \in Conns |-> 0]
  /\ lwaits = [c \in Conns |-> 0]
  /\ snd = [t \in Senders |-> IdleFrame]
  /\ mainpc = "loop"
  /\ mainexc = "none"
  /\ td = 0
  /\ faults = 0
  /\ arrived = 0
  /\ delivered = <<>>
  /\ handled = <<>>
  /\ calls = [c \in Secondaries |-> <<>>]
  /\ wire = [c \in Secondaries |-> <<>>]

\* no function of the framing layer is applied on its own
NotDecoded == [header |-> <<>>, some |-> FALSE, msg |-> <<>>]

Init ==
  /\ ServiceInit
  /\ stream = <<>>
  /\ applied = "none"
  /\ result = ReturnedNone(<<>>)
  /\ decoded = NotDecoded

\* the process runs until main_loop has left the with block
Running == mainpc # "exited"
IsSocket(c) == mode[c] # "Serial"

(***************************************************************************)
(* The receivers (the environment).                                        *)
(***************************************************************************)
\* what a receiver sends at once: a terminated command after idle
\* terminators, a command without its terminator, an eISCP datagram, a
\* datagram cut in its header, a datagram with a wrong magic
Chunks(m) ==
  IF m = "EISCP"
    THEN {build_eiscp_packet(PWR01), build_eiscp_packet(MVL20),
          SubSeq(build_eiscp_packet(PWR00), 1, 10)}
  ELSE {<<CR, CR>> \o PWR01 \o <<CR>>, MVL20 \o <<LF>>, PWR00}

\* the primary receiver sends bytes
Arrive ==
  /\ Running
  /\ arrived < MaxMsgs
  /\ handle[Primary] = "open"
  /\ end[Primary] = "none"
  /\ \E chunk \in Chunks(mode[Primary]) :
       buf' = [buf EXCEPT ![Primary] = @ \o chunk]
  /\ arrived' = arrived + 1
  /\ UNCHANGED <<lfails, lwaits>>
  /\ UNCHANGED <<framingVars, mode, connected, handle, end, lpc, lexc, snd, mainpc, mainexc,
                 td, faults, delivered, handled, calls, wire>>

\* a receiver closes or resets its TCP connection
PeerEnds(c) ==
  /\ Running
  /\ faults < MaxFaults
  /\ IsSocket(c)
  /\ handle[c] = "open"
  /\ end[c] = "none"
  /\ \E e \in {"eof", "rst"} : end' = [end EXCEPT ![c] = e]
  /\ faults' = faults + 1
  /\ UNCHANGED <<lfails, lwaits>>
  /\ UNCHANGED <<framingVars, mode, connected, handle, buf, lpc, lexc, snd, mainpc,
                 mainexc, td, arrived, delivered, handled, calls, wire>>

(***************************************************************************)
(* _connect_to_receiver and _disconnect of the three transports.           *)
(***************************************************************************)
\* the connect succeeds
connect_to_receiver(c) ==
  /\ handle' = [handle EXCEPT ![c] = "open"]
  /\ connected' = [connected EXCEPT ![c] = TRUE]
  /\ buf' = [buf EXCEPT ![c] = <<>>]
  /\ end' = [end EXCEPT ![c] = "none"]

\* the connect raises: a socket made for it stays in self.sock, a Serial
\* that failed to open leaves self.ser as it was
connect_fails(c) ==
  /\ handle' = [handle EXCEPT ![c] =
                  IF IsSocket(c) /\ @ = "none" THEN "unconnected" ELSE @]
  /\ UNCHANGED <<connected, buf, end>>

\* the if of _disconnect: self.connected for the sockets,
\* self.connected and self.ser.is_open for Serial
closes(c) == connected[c] /\ (IsSocket(c) \/ handle[c] = "open")

\* _disconnect returns, for each connection of S: a socket is shut down and
\* closed, self.sock is None and self.connected False; a Serial is closed
disconnect_each(S) ==
  /\ handle' = [c \in Conns |->
                  IF c \in S /\ closes(c)
                    THEN IF IsSocket(c) THEN "none" ELSE "closed"
                  ELSE handle[c]]
  /\ connected' = [c \in Conns |->
                     IF c \in S /\ closes(c) /\ IsSocket(c) THEN FALSE
                     ELSE connected[c]]
  /\ buf' = [c \in Conns |-> IF c \in S /\ closes(c) THEN <<>> ELSE buf[c]]
  /\ end' = [c \in Conns |-> IF c \in S /\ closes(c) THEN "none" ELSE end[c]]

disconnect(c) == disconnect_each({c})

\* sock.shutdown raises (the peer is gone): _disconnect raises OSError
disconnect_can_fail(c) == IsSocket(c) /\ connected[c] /\ faults < MaxFaults

\* sock.connect on a socket that is connected raises OSError
connect_must_fail(c) == IsSocket(c) /\ handle[c] = "open"

\* the exception of a poll or a write on a handle that is not open: select
\* on None raises TypeError, an attribute of None AttributeError, a socket
\* that is not connected or a closed port OSError
HandleError(c, polling) ==
  IF handle[c] = "none"
    THEN IF IsSocket(c) /\ polling THEN "TypeError" ELSE "AttributeError"
  ELSE "OSError"

(***************************************************************************)
(* ReceiverSyncService.relay_message_to_secondary and the way a            *)
(* send_message_to_receiver call ends in the thread that made it.          *)
(***************************************************************************)
\* a check of the first two bytes alone
is_power_message_short(message) == StartsWith(message, EISCP_PREFIX)

\* message.startswith(b"!1PWR")
is_power_message(message) == StartsWith(message, PWR_PREFIX)

\* the callback of the primary, called by listen_forever with what
\* get_message returned (message.some is FALSE for None)
relay_message_to_secondary(message) ==
  LET idx == Len(delivered) + 1 IN
  /\ delivered' = Append(delivered, message)
  /\ IF ~message.some
       THEN \* None.startswith raises AttributeError
            /\ handled' = Append(handled, "AttributeError")
            /\ lpc' = [lpc EXCEPT ![Primary] = "dead"]
            /\ lexc' = [lexc EXCEPT ![Primary] = "AttributeError"]
            /\ UNCHANGED <<snd, calls>>
     ELSE IF is_power_message(message.msg) /\ NumSecondaries > 0
       THEN /\ snd' = [snd EXCEPT !["listener"] = Call(1, message.msg, idx)]
            /\ calls' = [calls EXCEPT ![1] = Append(@, idx)]
            /\ lpc' = [lpc EXCEPT ![Primary] = "relay"]
            /\ UNCHANGED <<handled, lexc>>
     ELSE /\ handled' = Append(handled, "none")
          /\ lpc' = [lpc EXCEPT ![Primary] = "top"]
          /\ UNCHANGED <<snd, calls, lexc>>

\* the call goes on at step p
Continue(t, p, w) ==
  /\ snd' = [snd EXCEPT ![t].pc = p, ![t].writes = w]
  /\ UNCHANGED <<lpc, lexc, mainpc, mainexc, td, handled, calls>>

\* the call returns: relay_message_to_secondary goes to the next listener of
\* its loop, send_pwr_question_to_primary returns to main_loop
Return(t) ==
  IF t = "main"
    THEN /\ snd' = [snd EXCEPT ![t] = IdleFrame]
         /\ mainpc' = "loop"
         /\ UNCHANGED <<lpc, lexc, mainexc, td, handled, calls>>
  ELSE IF snd[t].conn < NumSecondaries
    THEN /\ snd' = [snd EXCEPT ![t] =
                      Call(snd[t].conn + 1, snd[t].message, snd[t].idx)]
         /\ calls' = [calls EXCEPT ![snd[t].conn + 1] = Append(@, snd[t].idx)]
         /\ UNCHANGED <<lpc, lexc, mainpc, mainexc, td, handled>>
  ELSE /\ snd' = [snd EXCEPT ![t] = IdleFrame]
       /\ handled' = Append(handled, "none")
       /\ lpc' = [lpc EXCEPT ![Primary] = "top"]
       /\ UNCHANGED <<lexc, mainpc, mainexc, td, calls>>

\* the call raises exc: nothing catches it in relay_message_to_secondary, so
\* it reaches the try of listen_forever, which catches ConnectionResetError
\* alone; in the main thread it ends main_loop, whose with block runs __exit__
Raise(t, exc) ==
  /\ snd' = [snd EXCEPT ![t] = IdleFrame]
  /\ IF t = "main"
       THEN /\ mainpc' = "teardown"
            /\ mainexc' = exc
            /\ UNCHANGED <<lpc, lexc, td, handled, calls>>
     ELSE /\ handled' = Append(handled, exc)
          /\ IF exc = "ConnectionResetError"
               THEN /\ lpc' = [lpc EXCEPT ![Primary] = "disconnect"]
                    /\ UNCHANGED lexc
             ELSE /\ lpc' = [lpc EXCEPT ![Primary] = "dead"]
                  /\ lexc' = [lexc EXCEPT ![Primary] = exc]
          /\ UNCHANGED <<mainpc, mainexc, td, calls>>

(***************************************************************************)
(* ReceiverConnection.listen_forever, one thread per connection.           *)
(***************************************************************************)
\* if not self.connected: self._connect_to_receiver() succeeds
ListenConnect(c) ==
  /\ Running
  /\ lpc[c] = "top"
  /\ ~connected[c]
  /\ ~connect_must_fail(c)
  /\ connect_to_receiver(c)
  /\ lpc' = [lpc EXCEPT ![c] = "poll"]
  /\ UNCHANGED <<lfails, lwaits>>
  /\ UNCHANGED <<framingVars, mode, lexc, snd, mainpc, mainexc, td, faults, arrived,
                 delivered, handled, calls, wire>>

\* a listener that does not sleep after a failed connect
ListenConnectFailsNoSleep(c) ==
  /\ Running
  /\ lpc[c] = "top"
  /\ ~connected[c]
  /\ connect_must_fail(c) \/ faults < MaxFaults
  /\ connect_fails(c)
  /\ faults' = IF connect_must_fail(c) THEN faults ELSE faults + 1
  /\ lfails' = [lfails EXCEPT ![c] = @ + 1]
  /\ UNCHANGED <<framingVars, mode, lpc, lexc, lwaits, snd, mainpc, mainexc, td, arrived,
                 delivered, handled, calls, wire>>

\* _connect_to_receiver raises: except Exception, then time.sleep(1)
ListenConnectFails(c) ==
  /\ Running
  /\ lpc[c] = "top"
  /\ ~connected[c]
  /\ connect_must_fail(c) \/ faults < MaxFaults
  /\ connect_fails(c)
  /\ faults' = IF connect_must_fail(c) THEN faults ELSE faults + 1
  /\ lpc' = [lpc EXCEPT ![c] = "backoff"]
  /\ lfails' = [lfails EXCEPT ![c] = @ + 1]
  /\ UNCHANGED lwaits
  /\ UNCHANGED <<framingVars, mode, lexc, snd, mainpc, mainexc, td, arrived,
                 delivered, handled, calls, wire>>

\* the sleep is over: continue
ListenBackoff(c) ==
  /\ Running
  /\ lpc[c] = "backoff"
  /\ lpc' = [lpc EXCEPT ![c] = "top"]
  /\ lwaits' = [lwaits EXCEPT ![c] = @ + 1]
  /\ UNCHANGED lfails
  /\ UNCHANGED <<framingVars, mode, connVars, lexc, snd, mainpc, mainexc, td, faults,
                 arrived, delivered, handled, calls, wire>>

\* a listener that reads on while its callback is still forwarding
ListenPollAsync(c) ==
  /\ Running
  /\ lpc[c] \in {"poll", "relay"} \/ (lpc[c] = "top" /\ connected[c])
  /\ IF handle[c] # "open"
       THEN /\ lpc' = [lpc EXCEPT ![c] = "dead"]
            /\ lexc' = [lexc EXCEPT ![c] = HandleError(c, TRUE)]
            /\ UNCHANGED <<buf, snd, delivered, handled, calls>>
     ELSE IF buf[c] = <<>> /\ end[c] = "none"
       THEN \* check_for_message is false
            /\ lpc' = [lpc EXCEPT ![c] = "top"]
            /\ UNCHANGED <<buf, lexc, snd, delivered, handled, calls>>
     ELSE LET r == get_message(mode[c], buf[c], end[c]) IN
          /\ buf' = [buf EXCEPT ![c] = r.rest]
          /\ IF r.exc = "ConnectionResetError"
               THEN /\ lpc' = [lpc EXCEPT ![c] = "disconnect"]
                    /\ UNCHANGED <<lexc, snd, delivered, handled, calls>>
             ELSE IF r.exc # "none"
               THEN /\ lpc' = [lpc EXCEPT ![c] = "dead"]
                    /\ lexc' = [lexc EXCEPT ![c] = r.exc]
                    /\ UNCHANGED <<snd, delivered, handled, calls>>
             ELSE IF c = Primary
               THEN relay_message_to_secondary([some |-> r.some, msg |-> r.msg])
             ELSE \* the secondaries have no callback
                  /\ lpc' = [lpc EXCEPT ![c] = "top"]
                  /\ UNCHANGED <<lexc, snd, delivered, handled, calls>>
  /\ lfails' = [lfails EXCEPT ![c] = 0]
  /\ lwaits' = [lwaits EXCEPT ![c] = 0]
  /\ UNCHANGED <<framingVars, mode, connected, handle, end, mainpc, mainexc, td,
                 faults, arrived, wire>>

\* the connection is connected, or _connect_to_receiver has just returned:
\* the try block, with check_for_message, get_message and the callback
ListenPoll(c) ==
  /\ Running
  /\ lpc[c] = "poll" \/ (lpc[c] = "top" /\ connected[c])
  /\ IF handle[c] # "open"
       THEN /\ lpc' = [lpc EXCEPT ![c] = "dead"]
            /\ lexc' = [lexc EXCEPT ![c] = HandleError(c, TRUE)]
            /\ UNCHANGED <<buf, snd, delivered, handled, calls>>
     ELSE IF buf[c] = <<>> /\ end[c] = "none"
       THEN \* check_for_message is false
            /\ lpc' = [lpc EXCEPT ![c] = "top"]
            /\ UNCHANGED <<buf, lexc, snd, delivered, handled, calls>>
     ELSE LET r == get_message(mode[c], buf[c], end[c]) IN
          /\ buf' = [buf EXCEPT ![c] = r.rest]
          /\ IF r.exc = "ConnectionResetError"
               THEN /\ lpc' = [lpc EXCEPT ![c] = "disconnect"]
                    /\ UNCHANGED <<lexc, snd, delivered, handled, calls>>
             ELSE IF r.exc # "none"
               THEN /\ lpc' = [lpc EXCEPT ![c] = "dead"]
                    /\ lexc' = [lexc EXCEPT ![c] = r.exc]
                    /\ UNCHANGED <<snd, delivered, handled, calls>>
             ELSE IF c = Primary
               THEN relay_message_to_secondary([some |-> r.some, msg |-> r.msg])
             ELSE \* the secondaries have no callback
                  /\ lpc' = [lpc EXCEPT ![c] = "top"]
                  /\ UNCHANGED <<lexc, snd, delivered, handled, calls>>
  /\ lfails' = [lfails EXCEPT ![c] = 0]
  /\ lwaits' = [lwaits EXCEPT ![c] = 0]
  /\ UNCHANGED <<framingVars, mode, connected, handle, end, mainpc, mainexc, td,
                 faults, arrived, wire>>

\* except ConnectionResetError: self._disconnect()
ListenDisconnect(c) ==
  /\ Running
  /\ lpc[c] = "disconnect"
  /\ \/ /\ disconnect(c)
        /\ lpc' = [lpc EXCEPT ![c] = "top"]
        /\ UNCHANGED <<lexc, faults>>
     \/ /\ disconnect_can_fail(c)
        /\ faults' = faults + 1
        /\ lpc' = [lpc EXCEPT ![c] = "dead"]
        /\ lexc' = [lexc EXCEPT ![c] = "OSError"]
        /\ UNCHANGED connVars
  /\ UNCHANGED <<lfails, lwaits>>
  /\ UNCHANGED <<framingVars, mode, snd, mainpc, mainexc, td, arrived, delivered,
                 handled, calls, wire>>

(***************************************************************************)
(* ReceiverConnection.send_message_to_receiver, in the thread that calls   *)
(* it: the listener of the primary for a secondary, the main thread for    *)
(* the primary.                                                            *)
(***************************************************************************)
Active(t) == IF t = "main" THEN mainpc = "probe" ELSE lpc[Primary] = "relay"

\* if not self.connected: self._connect_to_receiver()
SendBegin(t) ==
  LET c == snd[t].conn IN
  /\ Running
  /\ Active(t)
  /\ snd[t].pc = "begin"
  /\ IF connected[c]
       THEN /\ Continue(t, "write", 0)
            /\ UNCHANGED <<connVars, faults>>
     ELSE \/ /\ ~connect_must_fail(c)
             /\ connect_to_receiver(c)
             /\ Continue(t, "write", 0)
             /\ UNCHANGED faults
          \/ /\ connect_must_fail(c) \/ faults < MaxFaults
             /\ connect_fails(c)
             /\ faults' = IF connect_must_fail(c) THEN faults ELSE faults + 1
             /\ Raise(t, "ConnectionRefusedError")
  /\ UNCHANGED <<lfails, lwaits>>
  /\ UNCHANGED <<framingVars, mode, arrived, delivered, wire>>

\* the payload of a write that succeeded, on the wire of a secondary
Written(t) ==
  LET c == snd[t].conn IN
  IF c \in Secondaries
    THEN [wire EXCEPT ![c] = Append(@,
            [idx |-> snd[t].idx,
             payload |-> prep_message_for_receiver(mode[c], snd[t].message)])]
  ELSE wire

\* try: self._send_message_to_receiver(message); a ConnectionResetError is
\* caught, and the thread sleeps one second
SendWrite(t) ==
  LET c == snd[t].conn IN
  /\ Running
  /\ Active(t)
  /\ snd[t].pc = "write"
  /\ IF handle[c] # "open"
       THEN /\ Raise(t, HandleError(c, FALSE))
            /\ UNCHANGED <<wire, faults>>
     ELSE \/ /\ wire' = Written(t)
             /\ Return(t)
             /\ UNCHANGED faults
          \/ /\ faults < MaxFaults
             /\ IsSocket(c)
             /\ faults' = faults + 1
             /\ Continue(t, "disconnect", snd[t].writes + 1)
             /\ UNCHANGED wire
          \/ /\ faults < MaxFaults
             /\ faults' = faults + 1
             /\ Raise(t, "OSError")
             /\ UNCHANGED wire
  /\ UNCHANGED <<lfails, lwaits>>
  /\ UNCHANGED <<framingVars, mode, connVars, arrived, delivered>>

\* except ConnectionResetError: self._disconnect()
SendDisconnect(t) ==
  LET c == snd[t].conn IN
  /\ Running
  /\ Active(t)
  /\ snd[t].pc = "disconnect"
  /\ \/ /\ disconnect(c)
        /\ Continue(t, "reconnect", snd[t].writes)
        /\ UNCHANGED faults
     \/ /\ disconnect_can_fail(c)
        /\ faults' = faults + 1
        /\ Raise(t, "OSError")
        /\ UNCHANGED connVars
  /\ UNCHANGED <<lfails, lwaits>>
  /\ UNCHANGED <<framingVars, mode, arrived, delivered, wire>>

\* except ConnectionResetError: self._connect_to_receiver()
SendReconnect(t) ==
  LET c == snd[t].conn IN
  /\ Running
  /\ Active(t)
  /\ snd[t].pc = "reconnect"
  /\ \/ /\ ~connect_must_fail(c)
        /\ connect_to_receiver(c)
        /\ Continue(t, "retry", snd[t].writes)
        /\ UNCHANGED faults
     \/ /\ connect_must_fail(c) \/ faults < MaxFaults
        /\ connect_fails(c)
        /\ faults' = IF connect_must_fail(c) THEN faults ELSE faults + 1
        /\ Raise(t, IF connect_must_fail(c) THEN "OSError" ELSE "ConnectionRefusedError")
  /\ UNCHANGED <<lfails, lwaits>>
  /\ UNCHANGED <<framingVars, mode, arrived, delivered, wire>>

\* a retry that, when it fails, goes through the except block again
SendRetryAgain(t) ==
  LET c == snd[t].conn IN
  /\ Running
  /\ Active(t)
  /\ snd[t].pc = "retry"
  /\ IF handle[c] # "open"
       THEN /\ Raise(t, HandleError(c, FALSE))
            /\ UNCHANGED <<wire, faults>>
     ELSE \/ /\ wire' = Written(t)
             /\ Return(t)
             /\ UNCHANGED faults
          \/ /\ faults < MaxFaults
             /\ faults' = faults + 1
             /\ Continue(t, "disconnect", snd[t].writes + 1)
             /\ UNCHANGED wire
  /\ UNCHANGED <<lfails, lwaits>>
  /\ UNCHANGED <<framingVars, mode, connVars, arrived, delivered>>

\* except ConnectionResetError: self._send_message_to_receiver(message)
SendRetry(t) ==
  LET c == snd[t].conn IN
  /\ Running
  /\ Active(t)
  /\ snd[t].pc = "retry"
  /\ IF handle[c] # "open"
       THEN /\ Raise(t, HandleError(c, FALSE))
            /\ UNCHANGED <<wire, faults>>
     ELSE \/ /\ wire' = Written(t)
             /\ Return(t)
             /\ UNCHANGED faults
          \/ /\ faults < MaxFaults
             /\ faults' = faults + 1
             /\ \E exc \in (IF IsSocket(c) THEN {"ConnectionResetError", "OSError"}
                            ELSE {"OSError"}) : Raise(t, exc)
             /\ UNCHANGED wire
  /\ UNCHANGED <<lfails, lwaits>>
  /\ UNCHANGED <<framingVars, mode, connVars, arrived, delivered>>

(***************************************************************************)
(* main.main_loop: the probe every hundredth tick, and the with block.     *)
(***************************************************************************)
\* count reached 100: eiscp_sync.send_pwr_question_to_primary()
send_pwr_question_to_primary ==
  /\ Running
  /\ mainpc = "loop"
  /\ mainpc' = "probe"
  /\ snd' = [snd EXCEPT !["main"] = Call(Primary, PWRQSTN, 0)]
  /\ UNCHANGED <<lfails, lwaits>>
  /\ UNCHANGED <<framingVars, mode, connVars, lpc, lexc, mainexc, td, faults, arrived,
                 delivered, handled, calls, wire>>

\* ReceiverSyncService.__exit__: for listener in self.listeners:
\* listener._disconnect(); the loop ends after the last listener, or at
\* listener k, whose _disconnect raises.  td is the number of listeners
\* whose _disconnect returned.
ServiceExit ==
  /\ mainpc = "teardown"
  /\ \/ /\ disconnect_each(Conns)
        /\ td' = NumSecondaries + 1
        /\ UNCHANGED faults
     \/ \E k \in Conns :
          /\ disconnect_can_fail(k)
          /\ disconnect_each(0 .. k - 1)
          /\ td' = k
          /\ faults' = faults + 1
  /\ mainpc' = "exited"
  /\ UNCHANGED <<lfails, lwaits>>
  /\ UNCHANGED <<framingVars, mode, lpc, lexc, snd, mainexc, arrived, delivered,
                 handled, calls, wire>>

Next ==
  \/ Arrive
  \/ \E c \in Conns : PeerEnds(c)
  \/ \E c \in Conns : ListenConnect(c)
  \/ \E c \in Conns : ListenConnectFails(c)
  \/ \E c \in Conns : ListenBackoff(c)
  \/ \E c \in Conns : ListenPoll(c)
  \/ \E c \in Conns : ListenDisconnect(c)
  \/ \E t \in Senders : SendBegin(t)
  \/ \E t \in Senders : SendWrite(t)
  \/ \E t \in Senders : SendDisconnect(t)
  \/ \E t \in Senders : SendReconnect(t)
  \/ \E t \in Senders : SendRetry(t)
  \/ send_pwr_question_to_primary
  \/ ServiceExit

Spec == Init /\ [][Next]_vars

(***************************************************************************)
(* The framing layer on its own: get_message of the delimited transports   *)
(* (TCP and serial), get_message of eISCP and the functions of eiscp.py,   *)
(* each applied to every byte string of a bounded set.                     *)
(***************************************************************************)
\* the longest byte string built from StreamBytes
MaxStreamLen == 4

\* the three terminators, "!", "1" and "2"
StreamBytes == {CR, LF, SUB, BANG, 49, 50}

RECURSIVE BytesUpTo(_)
BytesUpTo(n) ==
  IF n = 0 THEN {<<>>}
  ELSE LET S == BytesUpTo(n - 1) IN
       S \cup {Append(s, b) : s \in S, b \in StreamBytes}

\* every byte string up to MaxStreamLen, and some commands of full length:
\* after idle terminators, without a terminator, after a stray byte, two in a
\* row, and the magic of eISCP as a command
Streams ==
  BytesUpTo(MaxStreamLen)
    \cup {<<CR, CR>> \o PWR01 \o <<CR>>, PWR01, <<49>> \o PWR01 \o <<CR>>,
          PWR01 \o <<CR, LF>> \o MVL20 \o <<SUB>>, ISCP}

\* the datagram a receiver sends for a payload: the 16 byte header with the
\* length of the payload, then the payload
eiscp_datagram(payload) ==
  ISCP \o U32BE(HEADER_LEN) \o U32BE(Len(payload)) \o <<1, 0, 0, 0>> \o payload

serviceVars ==
  <<mode, connected, handle, buf, end, lpc, lexc, lfails, lwaits, snd, mainpc,
    mainexc, td, faults, arrived, delivered, handled, calls, wire>>

FramingInit ==
  /\ ServiceInit
  /\ stream \in Streams
  /\ applied = "none"
  /\ result = ReturnedNone(<<>>)
  /\ decoded = NotDecoded

\* ReceiverConnection.get_message on a connection that stays open and has
\* received stream
ReadDelimited ==
  /\ applied = "none"
  /\ applied' = "get_message"
  /\ result' = delimited_get_message(stream, "none")
  /\ UNCHANGED <<stream, decoded>>
  /\ UNCHANGED serviceVars

\* EiscpConnection.get_message on a connection that stays open and has
\* received the datagram of the payload stream
ReadEiscp ==
  /\ applied = "none"
  /\ applied' = "eiscp_get_message"
  /\ result' = eiscp_get_message(eiscp_datagram(stream), "none")
  /\ UNCHANGED <<stream, decoded>>
  /\ UNCHANGED serviceVars

\* extract_eiscp_header and extract_eiscp_message on the packet that
\* build_eiscp_packet makes of the command stream
RoundTrip ==
  /\ applied = "none"
  /\ stream # <<>>
  /\ applied' = "build_eiscp_packet"
  /\ decoded' =
       LET packet == build_eiscp_packet(stream) IN
       LET message == extract_eiscp_message(packet) IN
       [header |-> extract_eiscp_header(packet),
        some |-> message.some, msg |-> message.msg]
  /\ UNCHANGED <<stream, result>>
  /\ UNCHANGED serviceVars

FramingNext ==
  \/ ReadDelimited
  \/ ReadEiscp
  \/ RoundTrip

FramingSpec == FramingInit /\ [][FramingNext]_vars

(***************************************************************************)
(* Properties.                                                             *)
(***************************************************************************)
\* the first five bytes are !1PWR
HasPowerPrefix(m) ==
  /\ Len(m) >= 5
  /\ m[1] = 33 /\ m[2] = 49 /\ m[3] = 80 /\ m[4] = 87 /\ m[5] = 82

\* the k-th message given to the callback is a power message
Power(k) == delivered[k].some /\ HasPowerPrefix(delivered[k].msg)

\* send_message_to_receiver was called on secondary c with message k
InCalls(c, k) == \E j \in 1 .. Len(calls[c]) : calls[c][j] = k

\* the writes of message k that secondary c has received
Writes(c, k) == {j \in 1 .. Len(wire[c]) : wire[c][j].idx = k}

\* payload is message in the framing of secondary c
Framed(c, message, payload) ==
  IF mode[c] = "EISCP"
    THEN /\ Len(payload) = Len(message) + 17
         /\ SubSeq(payload, 1, 4) = <<73, 83, 67, 80>>
         /\ SubSeq(payload, 5, 8) = <<0, 0, 0, 16>>
         /\ SubSeq(payload, 9, 12) = <<0, 0, 0, Len(message) + 1>>
         /\ SubSeq(payload, 17, 16 + Len(message)) = message
         /\ payload[Len(payload)] = 13
  ELSE payload = message \o <<13>>

\* the call of send_message_to_receiver on secondary c with message k returned
CallReturned(c, k) ==
  /\ InCalls(c, k)
  /\ IF c < NumSecondaries THEN InCalls(c + 1, k)
     ELSE k <= Len(handled) /\ handled[k] = "none"

\* C1: once the forwarding handler has ended for a power message, a send of
\* that message has been attempted on every secondary, whatever the outcome
\* of the sends to the others.
C1_EverySecondaryAttempted ==
  \A k \in 1 .. Len(handled) :
    Power(k) => \A c \in Secondaries : InCalls(c, k)

\* C2: a message given to the forwarding handler causes a send to the
\* secondaries if and only if it starts with !1PWR; any other message causes
\* no send and no write on any secondary.
C2_PowerFilter ==
  \A k \in 1 .. Len(delivered) :
    /\ InCalls(1, k) <=> Power(k)
    /\ \A c \in Secondaries : (InCalls(c, k) \/ Writes(c, k) # {}) => Power(k)

C2_Witness ==
  \E k1, k2 \in 1 .. Len(handled) :
    /\ Power(k1) /\ InCalls(1, k1)
    /\ delivered[k2].some /\ ~Power(k2)
    /\ \A c \in Secondaries : ~InCalls(c, k2)

ConnectionErrors ==
  {"ConnectionRefusedError", "ConnectionResetError", "ConnectionClosedException",
   "OSError"}

\* C4: while a single failure has been injected (one receiver was
\* unreachable once), main_loop is still in its loop and no listener thread
\* has been ended by a connection error.
C4_KeepsRunning ==
  faults <= 1 =>
    /\ mainpc \in {"loop", "probe"}
    /\ \A c \in Conns : lexc[c] \notin ConnectionErrors

\* get_message of listener c is about to end without a message because of
\* the framing: it returns None (bad magic, no terminator, a timeout in the
\* data segment, a payload that does not start with !1) or it times out in
\* the header
FramingError(c) ==
  /\ lpc[c] = "poll" \/ (lpc[c] = "top" /\ connected[c])
  /\ handle[c] = "open"
  /\ buf[c] # <<>>
  /\ end[c] = "none"
  /\ LET r == get_message(mode[c], buf[c], end[c]) IN
       (r.exc = "none" /\ ~r.some) \/ r.exc = "TypeError"

\* C5: a read that ends with a framing error does not end the listener
\* thread: the listener goes on with its loop.
C5_FramingNeverCrashes ==
  [][\A c \in Conns : FramingError(c) => lpc'[c] # "dead"]_vars

\* C6: no listener thread is ended by a transient connection error (a
\* connect failure, a reset, a closed peer).
C6_ConnectionErrorsStayInLoop ==
  \A c \in Conns :
    lexc[c] \notin {"ConnectionRefusedError", "ConnectionResetError",
                    "ConnectionClosedException"}

C7_RetryInv ==
  \A t \in Senders :
    /\ snd[t].pc \in {"idle", "begin", "write"} => snd[t].writes = 0
    /\ snd[t].pc \in {"disconnect", "reconnect", "retry"} => snd[t].writes = 1
    /\ snd[t].writes <= 1

C7_RetryStep ==
  \A t \in Senders :
    /\ (snd'[t].pc = "retry" /\ snd[t].pc # "retry")
         => /\ snd[t].pc = "reconnect"
            /\ connected'[snd[t].conn]
            /\ handle'[snd[t].conn] = "open"
    /\ (snd'[t].pc = "reconnect" /\ snd[t].pc # "reconnect")
         => snd[t].pc = "disconnect"
    /\ (snd'[t].pc = "disconnect" /\ snd[t].pc # "disconnect")
         => snd[t].pc = "write"
    /\ (snd[t].pc = "retry" /\ snd'[t] # snd[t])
         => \/ snd'[t].pc = "idle"
            \/ snd'[t].pc = "begin" /\ snd'[t].conn = snd[t].conn + 1
    /\ (t = "listener" /\ snd[t].pc = "retry" /\ snd'[t] # snd[t]
          /\ wire' = wire)
         => /\ snd'[t].pc = "idle"
            /\ handled' # handled
            /\ handled'[Len(handled')] # "none"
    /\ (t = "main" /\ snd[t].pc = "retry" /\ snd'[t] # snd[t]
          /\ mainpc' # "loop")
         => mainpc' = "teardown" /\ mainexc' # "none"

C7_NothingQueued ==
  \A c \in Secondaries :
    wire'[c] # wire[c]
      => /\ snd["listener"].conn = c
         /\ snd["listener"].pc \in {"write", "retry"}
         /\ wire'[c] = Append(wire[c],
              [idx |-> snd["listener"].idx,
               payload |-> wire'[c][Len(wire'[c])].payload])

C8_BackoffInv ==
  \A c \in Conns :
    /\ lpc[c] = "backoff" => lfails[c] = lwaits[c] + 1
    /\ lpc[c] # "backoff" => lfails[c] = lwaits[c]

C8_BackoffStep ==
  \A c \in Conns :
    /\ lfails'[c] = lfails[c] + 1
         => /\ lpc[c] = "top" /\ lpc'[c] = "backoff"
            /\ ~connected[c] /\ ~connected'[c]
            /\ buf'[c] = buf[c]
    /\ (lpc[c] = "backoff" /\ lpc'[c] # "backoff")
         => /\ lpc'[c] = "top"
            /\ lwaits'[c] = lwaits[c] + 1
            /\ buf'[c] = buf[c]
    /\ (lpc[c] = "top" /\ ~connected[c] /\ lpc'[c] = "poll")
         => /\ connected'[c]
            /\ handle'[c] = "open"
            /\ lfails'[c] = lfails[c]

C8_ReconnectWithBackoff ==
  [] C8_BackoffInv /\ [][C8_BackoffStep]_vars

C8_Witness ==
  \E c \in Conns :
    /\ lpc[c] = "poll"
    /\ connected[c]
    /\ lfails[c] = 2
    /\ lwaits[c] = 2

\* C9: once __exit__ has run, every transport handle, also one made by a
\* connect attempt that failed, is closed.
C9_TeardownReleases ==
  mainpc = "exited" => \A c \in Conns : handle[c] \in {"none", "closed"}

\* C10: the sends issued on each secondary, and the payloads written to it,
\* are in the order in which the messages were assembled on the primary, and
\* the handler of a message has ended before the next message is assembled.
Increasing(seq) ==
  \A i, j \in 1 .. Len(seq) : i < j => seq[i] < seq[j]

C10_FifoForwarding ==
  /\ Len(handled) <= Len(delivered)
  /\ Len(delivered) <= Len(handled) + 1
  /\ \A c \in Secondaries :
       /\ Increasing(calls[c])
       /\ Increasing([j \in 1 .. Len(wire[c]) |-> wire[c][j].idx])
       /\ \A j \in 1 .. Len(calls[c]) : calls[c][j] <= Len(delivered)
       /\ \A j \in 1 .. Len(calls[c]) :
            calls[c][j] > Len(handled) => lpc[Primary] = "relay"

C10_Witness ==
  \E c \in Secondaries :
    /\ Len(wire[c]) = 2
    /\ wire[c][1].idx < wire[c][2].idx
    /\ wire[c][1].payload # wire[c][2].payload

(***************************************************************************)
(* Properties of the framing layer.                                        *)
(***************************************************************************)
\* the place of the first "!" of s, 0 when it has none
FirstBang(s) ==
  IF \E i \in 1 .. Len(s) : s[i] = 33
    THEN CHOOSE i \in 1 .. Len(s) :
           s[i] = 33 /\ \A k \in 1 .. i - 1 : s[k] # 33
  ELSE 0

\* the place of the first terminator of s after place i, 0 when there is none
FirstEndAfter(s, i) ==
  IF \E j \in i + 1 .. Len(s) : s[j] \in {13, 10, 26}
    THEN CHOOSE j \in i + 1 .. Len(s) :
           s[j] \in {13, 10, 26} /\ \A k \in i + 1 .. j - 1 : s[k] \notin {13, 10, 26}
  ELSE 0

\* C11: for every byte stream with a "!" and a terminator after it, the
\* delimited get_message returns a message: the terminators before the first
\* "!" did not end it, the first terminator after the "!" ends it (the read
\* stops right after that terminator), the message holds no terminator and
\* ends with the bytes from the "!" to that terminator; when only terminators
\* come before the "!", as in CR CR !1PWR01 CR, it is exactly those bytes.
C11_StartMarkerRule ==
  applied = "get_message" =>
    LET i == FirstBang(stream) IN
    LET j == FirstEndAfter(stream, i) IN
    (i > 0 /\ j > 0) =>
      /\ result.exc = "none"
      /\ result.some
      /\ result.rest = SubSeq(stream, j + 1, Len(stream))
      /\ \A k \in 1 .. Len(result.msg) : result.msg[k] \notin {13, 10, 26}
      /\ Len(result.msg) >= j - i
      /\ SubSeq(result.msg, Len(result.msg) - (j - i) + 1, Len(result.msg))
           = SubSeq(stream, i, j - 1)
      /\ (\A k \in 1 .. i - 1 : stream[k] \in {13, 10, 26})
           => result.msg = SubSeq(stream, i, j - 1)

C11_Witness ==
  /\ applied = "get_message"
  /\ stream = <<13, 13, 33, 49, 80, 87, 82, 48, 49, 13>>
  /\ result.some
  /\ result.msg = <<33, 49, 80, 87, 82, 48, 49>>

\* C12: for every command that is not empty, the header of the packet that
\* build_eiscp_packet makes of it decodes to (16, length of the command + 1)
\* and extract_eiscp_message gives back the command, byte for byte.
C12_FramerRoundTrip ==
  applied = "build_eiscp_packet" =>
    /\ decoded.header = <<16, Len(stream) + 1>>
    /\ decoded.some
    /\ decoded.msg = stream

C12_Witness ==
  /\ applied = "build_eiscp_packet"
  /\ stream = <<33, 49, 13>>
  /\ decoded.header = <<16, 4>>
  /\ decoded.msg = <<33, 49, 13>>

\* C16: every message the delimited get_message returns begins at the first
\* "!" of the stream: it starts with "!" and holds no byte that came before
\* that "!", so it is the bytes from the first "!" to the terminator.
C16_BeginsAtFirstBang ==
  (applied = "get_message" /\ result.some) =>
    LET i == FirstBang(stream) IN
    LET j == FirstEndAfter(stream, i) IN
    /\ i > 0 /\ j > 0
    /\ result.msg # <<>> /\ result.msg[1] = 33
    /\ result.msg = SubSeq(stream, i, j - 1)

\* C17: when the stream holds a "!" and no terminator after it, and the
\* connection stays open, the delimited get_message ends: it has read all
\* the bytes and returns None, it raises nothing and returns no message.
C17_UnterminatedReported ==
  applied = "get_message" =>
    LET i == FirstBang(stream) IN
    (i > 0 /\ FirstEndAfter(stream, i) = 0) =>
      /\ result.exc = "none"
      /\ ~result.some
      /\ result.rest = <<>>

C17_Witness ==
  /\ applied = "get_message"
  /\ stream = <<33, 49, 80, 87, 82, 48, 49>>
  /\ result.exc = "none"
  /\ ~result.some

\* the number of bytes of s before its trailing terminators
StrippedLen(s) ==
  IF \E k \in 1 .. Len(s) : s[k] \notin {13, 10, 26}
    THEN CHOOSE k \in 1 .. Len(s) :
           s[k] \notin {13, 10, 26} /\ \A n \in k + 1 .. Len(s) : s[n] \in {13, 10, 26}
  ELSE 0

\* C18: for every datagram that is read in full, the eISCP get_message
\* returns the payload without its trailing terminators if and only if that
\* begins with !1; for any other payload it returns None.
C18_EiscpInboundFilter ==
  applied = "eiscp_get_message" =>
    LET stripped == SubSeq(stream, 1, StrippedLen(stream)) IN
    /\ result.exc = "none"
    /\ result.rest = <<>>
    /\ result.some <=> (Len(stripped) >= 2 /\ stripped[1] = 33 /\ stripped[2] = 49)
    /\ result.some => result.msg = stripped

C18_Witness ==
  /\ applied = "eiscp_get_message"
  /\ stream = <<33, 49, 13, 10>>
  /\ result.some
  /\ result.msg = <<33, 49>>

(***************************************************************************)
(* Properties of the listeners and of the threads of main_loop.            *)
(***************************************************************************)
\* the read that listener c is about to make ends with a reset or closed
\* error: the peer has closed or reset the connection
ReadError(c) ==
  /\ lpc[c] = "poll" \/ (lpc[c] = "top" /\ connected[c])
  /\ handle[c] = "open"
  /\ end[c] \in {"eof", "rst"}
  /\ get_message(mode[c], buf[c], end[c]).exc
       \in {"ConnectionResetError", "ConnectionClosedException"}

\* C13: a read of listen_forever that ends with a reset or closed error takes
\* the listener to its disconnect, and when the listener leaves the
\* disconnect it is back at the top of its loop with the connected flag
\* false and the handle closed, so that its next step is a connect attempt.
C13_ErrorDisconnects ==
  [][\A c \in Conns :
       /\ (ReadError(c) /\ lpc'[c] # lpc[c]) => lpc'[c] = "disconnect"
       /\ (lpc[c] = "disconnect" /\ lpc'[c] # "disconnect")
            => /\ lpc'[c] = "top"
               /\ ~connected'[c]
               /\ handle'[c] \in {"none", "closed"}]_vars

\* the tasks that are between their check of the connected flag of
\* connection c and their use of its handle: the listen_forever thread of c
\* ("listen", c), the thread of the primary listener inside a send to c
\* ("listen", Primary) and the main thread inside its probe ("main", 0)
InCall(t, c) ==
  /\ Active(t)
  /\ snd[t].conn = c
  /\ snd[t].pc \in {"write", "disconnect", "reconnect", "retry"}

Users(c) ==
  {t \in {<<"listen", k>> : k \in Conns} \cup {<<"main", 0>>} :
     \/ t = <<"listen", c>> /\ lpc[c] \in {"poll", "disconnect"}
     \/ t = <<"listen", Primary>> /\ InCall("listener", c)
     \/ t = <<"main", 0>> /\ InCall("main", c)}

\* C14: at no time are two tasks between their connected check and their
\* use of the handle of the same connection, and the listen_forever thread
\* of a secondary never connects, polls, reads or disconnects its handle:
\* that handle is used from the thread of the primary listener alone.
C14_SingleWriter ==
  /\ \A c \in Conns : Cardinality(Users(c)) <= 1
  /\ \A c \in Secondaries : lpc[c] = "top" /\ lfails[c] = 0

\* C15: every message given to the callback is a complete message: the
\* callback is not called for a read that get_message ended with None.
C15_CallbackOnlyComplete ==
  \A k \in 1 .. Len(delivered) : delivered[k].some

\* C19: in every state, a connection whose connected flag is true has a
\* handle that exists and is open.
C19_ConnectedImpliesOpen ==
  \A c \in Conns : connected[c] => handle[c] = "open"

\* C20: the forwarding handler, however its sends end, returns to the loop
\* of the primary listener: the listener goes on at the top of its loop, it
\* is neither sent to its disconnect nor ended.
C20_PrimaryUntouched ==
  [][lpc[Primary] = "relay" => lpc'[Primary] \in {"relay", "top"}]_vars

====
